---- MODULE Spec2Model ----
(***************************************************************************)
(* libcryptocam: the decryption orchestrator (src/src/decrypt.rs), the      *)
(* video demux/remux job (src/src/decrypt_video.rs and the older copy in    *)
(* src/src/decrypt.rs) and the image extraction job                         *)
(* (src/src/decrypt_image.rs), as one state machine.                        *)
(*                                                                         *)
(* The decrypted plaintext is [5-byte secondary header][metadata][payload]. *)
(* The payload is modelled byte by byte: the packet loop reads 13-byte      *)
(* headers and the declared number of payload bytes from it, so truncation  *)
(* and loss of packet alignment are things the model can exhibit.           *)
(* External capabilities (outer-header parser, keyring, codec library,      *)
(* bitstream filter, muxer, file system) are the environment: each call's   *)
(* outcome is a nondeterministic choice among the outcomes its interface    *)
(* allows.                                                                  *)
(***************************************************************************)
EXTENDS Integers, Sequences, FiniteSets, TLC

\* ------------------------------------------------------------------ bounds

\* Longest packet list a payload is encoded from.
MaxPackets == 2
\* Largest absolute PTS written into a packet header.
MaxPts == 1
\* Longest packet list the orchestrator's malformed inputs are paired with.
MaxOrchPackets == 1
\* Width of usize, scaled down so that its values stay small integers.
UsizeBits == 16
\* How many times a caller invokes run on one job.
MaxRuns == 2

\* ------------------------------------------------------- program constants

\* let mut packet_header: [u8; 13]
PacketHeaderLen == 13
\* let mut encrypted_header: [u8; 5]
EncryptedHeaderLen == 5
\* if header.version != 1
SupportedVersion == 1
\* packet_header[0]: 1 => PacketType::Video
PacketTypeVideo == 1
\* packet_header[0]: 2 => PacketType::Audio
PacketTypeAudio == 2

\* ------------------------------------------------------------ byte helpers

RECURSIVE ReadLE(_)
\* bytes::LittleEndian::read_u32 / read_u64: the value of a little-endian
\* byte string.
ReadLE(bs) ==
    IF bs = <<>> THEN 0 ELSE Head(bs) + 256 * ReadLE(Tail(bs))

RECURSIVE WriteLE(_, _)
\* The k little-endian bytes of n: how the recording application lays out a
\* header field (used to build inputs only).
WriteLE(n, k) ==
    IF k = 0 THEN <<>> ELSE <<n % 256>> \o WriteLE(n \div 256, k - 1)

\* Arithmetic on usize without overflow checks wraps modulo the word size.
UsizeMod == 2 ^ UsizeBits
WrapUsize(x) == x % UsizeMod
\* Vec allocation refuses (panics with "capacity overflow") above isize::MAX.
IsizeMax == (UsizeMod \div 2) - 1

\* ------------------------------------------------------------------ inputs

\* Packet type bytes the payloads are built from: video, audio and one
\* unrecognized type.
UnknownTypeByte == PacketTypeAudio + 1
TypeBytes == {PacketTypeVideo, PacketTypeAudio, UnknownTypeByte}

\* The on-disk form of one packet: 1 byte type, 8 bytes LE PTS, 4 bytes LE
\* payload length, then the payload bytes.
EncodePacket(p) ==
    <<p.type>> \o WriteLE(p.pts, 8) \o WriteLE(Len(p.data), 4) \o p.data

\* Payload bytes of an unrecognized packet that happen to look like the
\* header of an empty video packet with PTS 0.
HeaderLikeData ==
    EncodePacket([type |-> PacketTypeVideo, pts |-> 0, data |-> <<>>])

\* Packet payloads the inputs use, per type.
DataChoices(t) ==
    IF t = PacketTypeVideo THEN {<<>>, <<170, 187>>}
    ELSE IF t = PacketTypeAudio THEN {<<204>>}
    ELSE {<<>>, HeaderLikeData}

\* The PTS field of an unrecognized packet is never read; it is left 0.
PtsChoices(t) == IF t = UnknownTypeByte THEN {0} ELSE 0..MaxPts

InputPackets ==
    UNION {[type : {t}, pts : PtsChoices(t), data : DataChoices(t)] : t \in TypeBytes}

InputPacketLists ==
    UNION {[1..n -> InputPackets] : n \in 0..MaxPackets}

RECURSIVE EncodePackets(_)
EncodePackets(ps) ==
    IF ps = <<>> THEN <<>> ELSE EncodePacket(Head(ps)) \o EncodePackets(Tail(ps))

\* Where packet i of the input begins in the payload.
PacketOffset(ps, i) == Len(EncodePackets(SubSeq(ps, 1, i - 1)))

\* How many bytes are missing from the end of the payload (0: complete).
Cuts == {0, 1, 12, 14}

Truncate(bs, c) == SubSeq(bs, 1, Len(bs) - c)

\* Inputs of the orchestrator: outer format versions, file-type bytes,
\* offset_to_data values and metadata blobs.
Versions == {1, 2}
FileTypeBytes == {1, 2, 7}
\* Length in bytes of the metadata JSON of the input file.
MetadataLen == 2
OffsetsToData == {0, 4, 5, 6, 7, 8}
MetadataKinds == {"video", "image", "not_json", "not_utf8"}
\* Byte length of the outer header, as the header parser reports it.
OuterHeaderLen == 20
\* Byte length of the input file.
FileLen == 90
\* Job parameters a direct caller of the job builders passes.
BuilderTotal == 90
BuilderOffset == 27

\* The metadata blob as it lies in the plaintext (its bytes stand for a JSON
\* text; whether they decode and parse is the blob's kind).
MetadataBytes == [i \in 1..MetadataLen |-> 123]

\* The decrypted plaintext of a file: secondary header, metadata, payload.
Plaintext(file_type, offset_to_data, bytes) ==
    <<file_type>> \o WriteLE(offset_to_data, 4) \o MetadataBytes \o bytes

NoValue == 0 - 1

\* ----------------------------------------------------------------- strings

\* A String is the sequence of its characters; an Option<String> is <<>> for
\* None and <<s>> for Some(s).
Some(s) == <<s>>
None == <<>>

\* u8::to_ascii_lowercase on the letters the inputs use.
ToAsciiLower(c) ==
    CASE c = "H" -> "h" [] c = "E" -> "e" [] c = "V" -> "v" [] c = "C" -> "c"
      [] OTHER -> c

\* str::eq_ignore_ascii_case: same length, and equal byte for byte once both
\* are lower-cased.
eq_ignore_ascii_case(a, b) ==
    /\ Len(a) = Len(b)
    /\ \A i \in 1..Len(a) : ToAsciiLower(a[i]) = ToAsciiLower(b[i])

\* str::replace(from, to) for one-character patterns.
replace(s, from, to) == [i \in 1..Len(s) |-> IF s[i] = from THEN to ELSE s[i]]

\* PathBuf::push on Unix: an absolute component replaces the path, any other
\* is appended after a separator.
PathPush(path, component) ==
    IF component # <<>> /\ component[1] = "/" THEN component
    ELSE IF path = <<>> \/ path[Len(path)] = "/" THEN path \o component
    ELSE path \o <<"/">> \o component

\* The output directory a caller hands to decrypt() and the job builders.
OutDir == <<"/", "o", "u", "t">>

\* The metadata's optional codec field.
CodecFields ==
    {None,
     Some(<<"h", "e", "v", "c">>), Some(<<"H", "E", "V", "C">>),
     Some(<<"H", "e", "V", "c">>), Some(<<"h", "2", "6", "5">>),
     Some(<<"H", "2", "6", "5">>), Some(<<"h", "2", "6", "4">>),
     Some(<<"h", "e", "v", "c", "1">>), Some(<<"h", "e", "v">>), Some(<<>>)}

\* The metadata's timestamp field: a plain one, one with colons, an absolute
\* path and a path that climbs out of the directory.
PlainTimestamp == <<"t">>
Timestamps ==
    {PlainTimestamp, <<"1", ":", "2">>, <<"/", "t">>, <<".", ".", "/", "t">>}

\* The image metadata's format field.
Formats == {<<"j", "p", "g">>, <<"p", "n", "g">>}

\* ------------------------------------------------------------------- state

VARIABLES
    pkts,          \* the packet list the payload was encoded from
    cut,           \* bytes missing from the end of the payload
    payload,       \* the payload bytes that follow the metadata
    input,         \* what decrypt() was called on (NoInput before the call)
    result,        \* what decrypt() / a job builder returned
    decrypt_calls, \* invocations of keyring.decrypt
    plain_read,    \* plaintext bytes decrypt() consumed with read_exact
    metadata_len,  \* decrypt()'s metadata_len, NoValue while not computed
    job,           \* the job's kind, total_file_size and bytes_before_data
    pc,            \* where the worker is
    cancel,        \* the shared AtomicBool
    pos,           \* payload bytes consumed from the job's reader
    packet_header, \* the 13-byte buffer of the packet loop
    first_pts,     \* Option<i64>: <<>> is None, <<v>> is Some(v)
    progress,      \* the loop's cumulative byte count
    audio_bsf,     \* packets held inside the audio bitstream filter
    muxed,         \* packets pushed to the muxer, in push order
    out_file,      \* the output file: "absent", "created" or "complete"
    calls,         \* the callbacks made on the progress sink, in order
    out_bytes,     \* the bytes the image job wrote to the output file
    faults,        \* the failures the environment raised during run
    header_tail,   \* bytes a failed header read found (NoValue: none failed)
    early_cancel,  \* whether the flag was set when the first header was read
    out_path,      \* the job's out_path, a PathBuf that run pushes onto
    codecs,        \* the codec names handed to the parameter builders
    flushed,       \* the flush calls made on filter and muxer, in order
    runs,          \* how many times run was called on the job
    cancel_mark    \* where the worker was when the flag was set

inputVars == <<pkts, cut, payload>>
orchVars == <<input, result, decrypt_calls, plain_read, metadata_len>>
loopVars == <<pos, packet_header, first_pts, progress, audio_bsf, muxed,
              header_tail, early_cancel>>
ioVars == <<out_file, out_bytes, out_path, codecs, flushed>>
ctlVars == <<runs, cancel_mark>>
vars == <<inputVars, orchVars, job, pc, cancel, loopVars, ioVars, ctlVars,
          calls, faults>>

NoInput == [kind |-> "none"]
NoJob == [kind |-> "none"]
NoCodecs == [video |-> "none", audio |-> "none"]
NoMark == [set |-> FALSE, more |-> FALSE, in_flight |-> FALSE, before_loop |-> FALSE,
           at |-> NoValue, n_muxed |-> 0, n_progress |-> 0]

Init ==
    /\ pkts \in InputPacketLists
    /\ cut \in Cuts
    /\ cut <= Len(EncodePackets(pkts))
    /\ payload = Truncate(EncodePackets(pkts), cut)
    /\ input = NoInput
    /\ result = "none"
    /\ decrypt_calls = 0
    /\ plain_read = 0
    /\ metadata_len = NoValue
    /\ job = NoJob
    /\ pc = "start"
    /\ cancel = FALSE
    /\ pos = 0
    /\ packet_header = <<>>
    /\ first_pts = <<>>
    /\ progress = 0
    /\ audio_bsf = <<>>
    /\ muxed = <<>>
    /\ out_file = "absent"
    /\ calls = <<>>
    /\ out_bytes = <<>>
    /\ faults = {}
    /\ header_tail = NoValue
    /\ early_cancel = FALSE
    /\ out_path = OutDir
    /\ codecs = NoCodecs
    /\ flushed = <<>>
    /\ runs = 0
    /\ cancel_mark = NoMark

\* ------------------------------------------------------------ orchestrator

\* The version check written as a lower bound only: newer formats pass.
VersionRejectedIfOlder(version) == version < SupportedVersion

\* if header.version != 1 { bail!("Bad Version in file header") }
VersionRejected(version) == version # SupportedVersion

\* str::from_utf8 of the n bytes read as metadata.
Utf8Ok(kind, n) == kind # "not_utf8" \/ n = 0

\* JSON white space, the only bytes serde_json accepts after a document.
JsonWhitespace == {9, 10, 13, 32}

\* serde_json::from_str::<VideoMetadata> of the n bytes read as metadata, of
\* which every byte past the blob comes from the payload: the text must be
\* the whole blob, the blob a JSON object with the video fields, and nothing
\* but white space may follow it.
parse_video_metadata(kind, n, bytes) ==
    /\ kind = "video"
    /\ n >= MetadataLen
    /\ \A i \in 1..(n - MetadataLen) : bytes[i] \in JsonWhitespace

\* serde_json::from_str::<ImageMetadata>, of a blob handed over whole.
parse_metadata(kind) == kind = "image"

\* The VideoMetadata of decrypt.rs has no codec field, and serde skips the
\* fields a struct does not declare: in.codec is never looked at.
\* decrypt() on the file `in`, as the record of what it did: its result, the
\* calls of keyring.decrypt, the plaintext bytes read, metadata_len (NoValue
\* when the function ended before computing it) and the job built.
\* in.overflow_checks is the build: with overflow checks the subtraction
\* panics, without them it wraps.
decrypt(in, bytes) ==
    LET plain == IF in.plain_ok
                 THEN Plaintext(in.file_type, in.offset_to_data, bytes)
                 ELSE <<in.file_type>>
        total_file_size == IF in.size_known THEN FileLen ELSE 0
        ended(res, calls_, read, mlen) ==
            [result |-> res, decrypt_calls |-> calls_, plain_read |-> read,
             metadata_len |-> mlen, job |-> NoJob, pos |-> 0]
    IN  IF ~in.header_ok THEN ended("err_header", 0, 0, NoValue)
        ELSE IF VersionRejected(in.version) THEN ended("err_version", 0, 0, NoValue)
        ELSE IF ~in.keyring_ok THEN ended("err_decrypt", 1, 0, NoValue)
        ELSE IF Len(plain) < EncryptedHeaderLen
             THEN ended("err_io", 1, Len(plain), NoValue)
        ELSE
        LET encrypted_header == SubSeq(plain, 1, EncryptedHeaderLen)
            offset_to_data == ReadLE(SubSeq(encrypted_header, 2, 5))
            bytes_before_metadata == Len(encrypted_header)
        IN  IF offset_to_data < bytes_before_metadata /\ in.overflow_checks
            THEN ended("panic_subtract_overflow", 1, EncryptedHeaderLen, NoValue)
            ELSE
            LET mlen == WrapUsize(offset_to_data - bytes_before_metadata)
                rest == Len(plain) - EncryptedHeaderLen
            IN  IF mlen > IsizeMax
                THEN ended("panic_capacity_overflow", 1, EncryptedHeaderLen, mlen)
                ELSE IF rest < mlen
                THEN ended("err_io", 1, Len(plain), mlen)
                ELSE IF ~Utf8Ok(in.meta_kind, mlen)
                THEN ended("err_utf8", 1, EncryptedHeaderLen + mlen, mlen)
                ELSE IF ~parse_video_metadata(in.meta_kind, mlen, bytes)
                THEN ended("err_metadata", 1, EncryptedHeaderLen + mlen, mlen)
                ELSE [result |-> "job", decrypt_calls |-> 1,
                      plain_read |-> EncryptedHeaderLen + mlen,
                      metadata_len |-> mlen,
                      job |-> [kind |-> "video_legacy",
                               total_file_size |-> total_file_size,
                               bytes_before_data |-> OuterHeaderLen + offset_to_data,
                               timestamp |-> in.timestamp],
                      pos |-> mlen - MetadataLen]

\* A well-formed video file.
GoodFile ==
    [kind |-> "file", size_known |-> TRUE, header_ok |-> TRUE,
     version |-> SupportedVersion, keyring_ok |-> TRUE, plain_ok |-> TRUE,
     file_type |-> 1, offset_to_data |-> EncryptedHeaderLen + MetadataLen,
     meta_kind |-> "video", overflow_checks |-> TRUE,
     codec |-> None, timestamp |-> PlainTimestamp]

SameAsGoodFile(in, fields) == \A f \in fields : in[f] = GoodFile[f]

\* One representative per behaviour of decrypt(): a field the function never
\* gets to look at keeps the value it has in GoodFile.
Canonical(in) ==
    /\ ~in.header_ok =>
         SameAsGoodFile(in, {"version", "keyring_ok", "plain_ok", "file_type",
                             "offset_to_data", "meta_kind"})
    /\ in.version # SupportedVersion =>
         SameAsGoodFile(in, {"keyring_ok", "plain_ok", "file_type",
                             "offset_to_data", "meta_kind"})
    /\ ~in.keyring_ok =>
         SameAsGoodFile(in, {"plain_ok", "file_type", "offset_to_data", "meta_kind"})
    /\ ~in.plain_ok => SameAsGoodFile(in, {"file_type", "offset_to_data", "meta_kind"})
    /\ in.offset_to_data < EncryptedHeaderLen => in.meta_kind = "video"
    /\ ~in.overflow_checks =>
         /\ in.offset_to_data < EncryptedHeaderLen
         /\ SameAsGoodFile(in, {"header_ok", "version", "keyring_ok", "plain_ok"})
    /\ ~in.size_known =>
         SameAsGoodFile(in, {"header_ok", "version", "keyring_ok", "plain_ok",
                             "offset_to_data", "meta_kind"})

\* The files with the plain metadata fields.
DecryptInputs ==
    {in \in [kind : {"file"}, size_known : BOOLEAN, header_ok : BOOLEAN,
             version : Versions, keyring_ok : BOOLEAN, plain_ok : BOOLEAN,
             file_type : FileTypeBytes, offset_to_data : OffsetsToData,
             meta_kind : MetadataKinds, overflow_checks : BOOLEAN,
             codec : {None}, timestamp : {PlainTimestamp}] :
        Canonical(in)}

\* The well-formed file with each codec field and each timestamp in its
\* metadata.
FieldVariants ==
    {[GoodFile EXCEPT !.codec = c] : c \in CodecFields}
    \cup {[GoodFile EXCEPT !.timestamp = t] : t \in Timestamps}

\* The files decrypt() is called on: every input on a short complete
\* payload, every metadata field on the empty payload, the well-formed file
\* on every payload.
FilesFor(ps, c) ==
    IF ps = <<>> THEN DecryptInputs \cup FieldVariants
    ELSE IF Len(ps) <= MaxOrchPackets /\ c = 0 THEN DecryptInputs ELSE {GoodFile}

\* A call of decrypt().
Decrypt ==
    /\ pc = "start"
    /\ \E in \in FilesFor(pkts, cut) :
         LET r == decrypt(in, payload)
         IN  /\ input' = in
             /\ result' = r.result
             /\ decrypt_calls' = r.decrypt_calls
             /\ plain_read' = r.plain_read
             /\ metadata_len' = r.metadata_len
             /\ job' = r.job
             /\ pos' = r.pos
             /\ pc' = IF r.result = "job" THEN "ready" ELSE "failed"
    /\ UNCHANGED <<inputVars, cancel, packet_header, first_pts, progress,
                   audio_bsf, muxed, header_tail, early_cancel, ioVars,
                   ctlVars, calls, faults>>

\* The fields of a video metadata blob that the job uses by value.
PlainVideoFields == [timestamp |-> PlainTimestamp, codec |-> None]
\* Every codec field and every timestamp on the empty payload, the plain
\* fields on every payload.
VideoFieldsFor(ps, c) ==
    IF ps = <<>>
    THEN {[PlainVideoFields EXCEPT !.codec = x] : x \in CodecFields}
         \cup {[PlainVideoFields EXCEPT !.timestamp = t] : t \in Timestamps}
    ELSE {PlainVideoFields}

\* The fields of an image metadata blob: every timestamp and format on a
\* short complete payload, the plain ones on every payload.
PlainImageFields == [timestamp |-> PlainTimestamp, format |-> <<"j", "p", "g">>]
ImageFieldsFor(ps, c) ==
    IF Len(ps) <= MaxOrchPackets /\ c = 0
    THEN [timestamp : Timestamps, format : Formats]
    ELSE {PlainImageFields}

\* build_video_decryption_job(data, metadata, out_path, total_file_size,
\* bytes_before_data), called on the payload reader and a metadata blob
\* that, when it parses, has the given fields.
build_video_decryption_job(kind, fields, total_file_size, bytes_before_data) ==
    IF ~Utf8Ok(kind, MetadataLen) THEN [result |-> "err_utf8", job |-> NoJob]
    ELSE IF ~parse_video_metadata(kind, MetadataLen, <<>>)
    THEN [result |-> "err_metadata", job |-> NoJob]
    ELSE [result |-> "job",
          job |-> [kind |-> "video", total_file_size |-> total_file_size,
                   bytes_before_data |-> bytes_before_data,
                   timestamp |-> fields.timestamp, codec |-> fields.codec]]

\* build_image_decryption_job, likewise.
build_image_decryption_job(kind, fields, total_file_size, bytes_before_data) ==
    IF ~Utf8Ok(kind, MetadataLen) THEN [result |-> "err_utf8", job |-> NoJob]
    ELSE IF ~parse_metadata(kind)
    THEN [result |-> "err_metadata", job |-> NoJob]
    ELSE [result |-> "job",
          job |-> [kind |-> "image", total_file_size |-> total_file_size,
                   bytes_before_data |-> bytes_before_data,
                   timestamp |-> fields.timestamp, format |-> fields.format]]

BuildVideo ==
    /\ pc = "start"
    /\ \E kind \in MetadataKinds, fields \in VideoFieldsFor(pkts, cut) :
         (kind = "video" \/ fields = PlainVideoFields) /\
         LET r == build_video_decryption_job(kind, fields, BuilderTotal, BuilderOffset)
         IN  /\ result' = r.result
             /\ job' = r.job
             /\ pc' = IF r.result = "job" THEN "ready" ELSE "failed"
    /\ UNCHANGED <<inputVars, input, decrypt_calls, plain_read, metadata_len,
                   cancel, loopVars, ioVars, ctlVars, calls, faults>>

BuildImage ==
    /\ pc = "start"
    /\ \E kind \in MetadataKinds, fields \in ImageFieldsFor(pkts, cut) :
         (kind = "image" \/ fields = PlainImageFields) /\
         LET r == build_image_decryption_job(kind, fields, BuilderTotal, BuilderOffset)
         IN  /\ result' = r.result
             /\ job' = r.job
             /\ pc' = IF r.result = "job" THEN "ready" ELSE "failed"
    /\ UNCHANGED <<inputVars, input, decrypt_calls, plain_read, metadata_len,
                   cancel, loopVars, ioVars, ctlVars, calls, faults>>

\* --------------------------------------------------------------- the sink

\* One call on the ProgressCallback: n is the u64 argument (0 when the call
\* has none), err the failure handed to on_error ("" otherwise).
Call(cb, n, err) == [cb |-> cb, n |-> n, err |-> err]

OnError(kind) == Call("on_error", 0, kind)

\* The two calls with their arguments exchanged.
RunPrologueArgsSwapped(j) ==
    <<Call("set_total_file_size", j.bytes_before_data, ""),
      Call("set_offset", j.total_file_size, "")>>

\* run()'s first two calls: set_total_file_size(total_file_size), then
\* set_offset(bytes_before_data).
RunPrologue(j) ==
    <<Call("set_total_file_size", j.total_file_size, ""),
      Call("set_offset", j.bytes_before_data, "")>>

\* VideoMuxingJob::run of decrypt_video.rs, up to the call of mux_video.
VideoRun ==
    /\ pc = "ready"
    /\ job.kind = "video"
    /\ calls' = calls \o RunPrologue(job)
    /\ pc' = "mux_setup"
    /\ runs' = runs + 1
    /\ UNCHANGED <<inputVars, orchVars, job, cancel, loopVars, ioVars,
                   cancel_mark, faults>>

\* VideoMuxingJob::run of decrypt.rs, up to the call of mux_video.
LegacyVideoRun ==
    /\ pc = "ready"
    /\ job.kind = "video_legacy"
    /\ calls' = calls \o RunPrologue(job)
    /\ pc' = "legacy_mux_setup"
    /\ runs' = runs + 1
    /\ UNCHANGED <<inputVars, orchVars, job, cancel, loopVars, ioVars,
                   cancel_mark, faults>>

\* A complete packet of the input lies at or after payload offset `from`.
CompletePacketFrom(from) ==
    \E i \in DOMAIN pkts :
        /\ PacketOffset(pkts, i) >= from
        /\ PacketOffset(pkts, i) + PacketHeaderLen + Len(pkts[i].data) <= Len(payload)

\* The controller thread stores true into the shared flag. cancel_mark keeps
\* where the worker was at that moment: whether a packet was in flight (its
\* header read and the flag already checked), where that packet's header
\* began, whether a complete packet lay beyond it, and how much had been
\* pushed and reported.
SetCancel ==
    /\ pc \in {"ready", "mux_setup", "legacy_mux_setup", "loop_head", "loop_check",
               "loop_body", "end_of_stream", "image_copy"}
    /\ ~cancel
    /\ cancel' = TRUE
    /\ cancel_mark' =
         LET header_read == pc \in {"loop_check", "loop_body"}
         IN  [set |-> TRUE,
              more |-> CompletePacketFrom(
                          IF header_read /\ packet_header # <<>>
                          THEN pos + ReadLE(SubSeq(packet_header, 10, 13)) ELSE pos),
              in_flight |-> pc = "loop_body",
              before_loop |-> pc \in {"ready", "mux_setup", "legacy_mux_setup"},
              at |-> IF pc = "loop_body" THEN pos - PacketHeaderLen ELSE NoValue,
              n_muxed |-> Len(muxed),
              n_progress |-> Len(SelectSeq(calls, LAMBDA c : c.cb = "on_progress"))]
    /\ UNCHANGED <<inputVars, orchVars, job, pc, loopVars, ioVars, runs, calls, faults>>

\* ------------------------------------------------------ mux_video: set-up

\* The fallible steps of mux_video before the packet loop, in code order.
SetupStages ==
    <<"video_codec", "channel_layout", "audio_codec", "filter_create",
      "filter_params", "output_format", "file_create", "add_video_stream",
      "add_audio_stream", "muxer_build">>
\* The steps whose Err is unwrap()ped.
SetupUnwraps == {"video_codec", "audio_codec"}

\* The same for mux_video of decrypt.rs, which has no filter and unwraps
\* add_stream.
LegacySetupStages ==
    <<"video_codec", "channel_layout", "audio_codec", "output_format",
      "file_create", "add_video_stream", "add_audio_stream", "muxer_build">>
LegacySetupUnwraps ==
    {"video_codec", "audio_codec", "add_video_stream", "add_audio_stream"}

StageIndex(stages, name) == CHOOSE i \in 1..Len(stages) : stages[i] = name

\* The set-up got as far as calling the step `name`.
Reached(stages, failed_at, name) ==
    failed_at = 0 \/ failed_at >= StageIndex(stages, name)

\* let codec_name = match metadata.codec.as_deref() {
\*     Some(c) if c.eq_ignore_ascii_case("hevc") || c.eq_ignore_ascii_case("h265")
\*         => "hevc",
\*     _ => "h264" };
codec_name(codec) ==
    IF /\ codec # None
       /\ \/ eq_ignore_ascii_case(codec[1], <<"h", "e", "v", "c">>)
          \/ eq_ignore_ascii_case(codec[1], <<"h", "2", "6", "5">>)
    THEN "hevc" ELSE "h264"

\* VideoCodecParameters::builder("h264") of decrypt.rs.
legacy_codec_name == "h264"

\* format!("{}.mp4", metadata.timestamp.replace(":", "-"))
file_name(timestamp) == replace(timestamp, ":", "-") \o <<".", "m", "p", "4">>

\* format!("{}.mp4", metadata.timestamp) of decrypt.rs
legacy_file_name(timestamp) == timestamp \o <<".", "m", "p", "4">>

\* The set-up with its step number failed_at failing (0: none fails): where
\* the worker ends up, what it reported, and whether File::create ran.
mux_setup(stages, unwraps, failed_at) ==
    LET created == failed_at = 0 \/ failed_at > StageIndex(stages, "file_create")
        stage == stages[failed_at]
    IN  [pc |-> IF failed_at = 0 THEN "loop_head"
                ELSE IF stage \in unwraps THEN "panicked" ELSE "returned",
         report |-> IF failed_at = 0 \/ stage \in unwraps THEN <<>>
                    ELSE <<OnError(stage)>>,
         out_file |-> IF created THEN "created" ELSE "absent",
         faults |-> IF failed_at = 0 THEN {} ELSE {stage}]

\* mux_video of decrypt_video.rs up to the packet loop. File::create cannot
\* succeed on a path that runs through a file an earlier run created.
MuxSetup ==
    /\ pc = "mux_setup"
    /\ \E failed_at \in 0..Len(SetupStages) :
         LET r == mux_setup(SetupStages, SetupUnwraps, failed_at)
         IN  /\ r.out_file = "created" => out_file = "absent"
             /\ pc' = r.pc
             /\ calls' = calls \o r.report
             /\ out_file' = IF r.out_file = "created" THEN "created" ELSE out_file
             /\ faults' = faults \cup r.faults
             /\ codecs' = [video |-> codec_name(job.codec),
                           audio |-> IF Reached(SetupStages, failed_at, "audio_codec")
                                     THEN "aac" ELSE codecs.audio]
             /\ out_path' = IF Reached(SetupStages, failed_at, "file_create")
                            THEN PathPush(out_path, file_name(job.timestamp))
                            ELSE out_path
    /\ UNCHANGED <<inputVars, orchVars, job, cancel, loopVars, out_bytes, flushed,
                   ctlVars>>

\* mux_video of decrypt.rs up to the packet loop.
LegacyMuxSetup ==
    /\ pc = "legacy_mux_setup"
    /\ \E failed_at \in 0..Len(LegacySetupStages) :
         LET r == mux_setup(LegacySetupStages, LegacySetupUnwraps, failed_at)
         IN  /\ r.out_file = "created" => out_file = "absent"
             /\ pc' = r.pc
             /\ calls' = calls \o r.report
             /\ out_file' = IF r.out_file = "created" THEN "created" ELSE out_file
             /\ faults' = faults \cup r.faults
             /\ codecs' = [video |-> legacy_codec_name,
                           audio |-> IF Reached(LegacySetupStages, failed_at, "audio_codec")
                                     THEN "aac" ELSE codecs.audio]
             /\ out_path' = IF Reached(LegacySetupStages, failed_at, "file_create")
                            THEN PathPush(out_path, legacy_file_name(job.timestamp))
                            ELSE out_path
    /\ UNCHANGED <<inputVars, orchVars, job, cancel, loopVars, out_bytes, flushed,
                   ctlVars>>

\* --------------------------------------------------- mux_video: the loop

\* Stream indices as add_stream hands them out: video first, audio second.
video_stream_index == 0
audio_stream_index == 1

\* packet_header[0]
packet_type(h) == h[1]
\* LittleEndian::read_u64(&packet_header[1..9])
packet_pts(h) == ReadLE(SubSeq(h, 2, 9))
\* LittleEndian::read_u32(&packet_header[9..13]) as usize
packet_length(h) == ReadLE(SubSeq(h, 10, 13))

\* match packet_header[0] { 1 => Video, 2 => Audio, e => continue }
Recognized(t) == t \in {PacketTypeVideo, PacketTypeAudio}

\* if first_pts.is_none() { first_pts = Some(pts as i64) }
FirstPtsAfter(first, pts) == IF first = <<>> THEN <<pts>> ELSE first

\* Timestamp::from_micros(pts as i64 - first_pts.unwrap()); the PTS values of
\* the model stay far below 2^63, where the cast is the identity and the
\* subtraction cannot overflow.
OutputTimestamp(pts, first) == pts - first[1]

\* The increment without the header's 13 bytes.
ProgressAfterPayloadOnly(p, len) == p + len

\* progress += packet_header.len() as u64 + packet_length as u64
ProgressAfter(p, len) == p + PacketHeaderLen + len

\* PacketMut::from(packet_data).with_pts(..).with_stream_index(..).freeze();
\* `at` is where the packet's header began in the payload; `filtered` tells
\* whether the packet came out of the audio bitstream filter.
MakePacket(h, first, at) ==
    [stream |-> IF packet_type(h) = PacketTypeVideo
                THEN video_stream_index ELSE audio_stream_index,
     pts |-> OutputTimestamp(packet_pts(h), first),
     len |-> packet_length(h),
     at |-> at,
     filtered |-> FALSE]

\* The packets audio_bsf.take() yields for the packets ps it was given.
FilterOutput(ps) == [i \in DOMAIN ps |-> [ps[i] EXCEPT !.filtered = TRUE]]

\* The flag as the worker never looking at it.
CancelNeverSeen(flag) == FALSE

\* cancel.load(Ordering::Relaxed)
CancelRequested(flag) == flag

\* data.read_exact(&mut packet_header) at the head of the loop: 13 bytes, or
\* Err when fewer remain, which ends the `while let Ok(())` loop.
ReadHeader ==
    /\ pc = "loop_head"
    /\ early_cancel' =
         IF packet_header = <<>> /\ header_tail = NoValue THEN cancel ELSE early_cancel
    /\ IF Len(payload) - pos >= PacketHeaderLen
       THEN /\ packet_header' = SubSeq(payload, pos + 1, pos + PacketHeaderLen)
            /\ pos' = pos + PacketHeaderLen
            /\ pc' = "loop_check"
            /\ UNCHANGED header_tail
       ELSE /\ header_tail' = Len(payload) - pos
            /\ pos' = Len(payload)
            /\ pc' = "end_of_stream"
            /\ UNCHANGED packet_header
    /\ UNCHANGED <<inputVars, orchVars, job, cancel, first_pts, progress,
                   audio_bsf, muxed, ioVars, ctlVars, calls, faults>>

\* if cancel.load(Ordering::Relaxed) { return; }, the first statement of the
\* loop body in both copies of mux_video.
CheckCancel ==
    /\ pc = "loop_check"
    /\ pc' = IF CancelRequested(cancel) THEN "returned" ELSE "loop_body"
    /\ UNCHANGED <<inputVars, orchVars, job, cancel, loopVars, ioVars, ctlVars,
                   calls, faults>>

\* Leaving run through on_error(kind).
ReturnError(kind) ==
    /\ calls' = Append(calls, OnError(kind))
    /\ faults' = faults \cup {kind}
    /\ pc' = "returned"

\* The end of a loop iteration.
ReportProgress ==
    /\ progress' = ProgressAfter(progress, packet_length(packet_header))
    /\ calls' = Append(calls, Call("on_progress",
                   ProgressAfter(progress, packet_length(packet_header)), ""))
    /\ pc' = "loop_head"

\* The loop body of mux_video in decrypt_video.rs, from the match on the
\* packet type to on_progress.
LoopBody ==
    /\ pc = "loop_body"
    /\ job.kind = "video"
    /\ LET h == packet_header
           len == packet_length(h)
           first == FirstPtsAfter(first_pts, packet_pts(h))
           packet == MakePacket(h, first, pos - PacketHeaderLen)
       IN
       \/ \* unknown packet type: warn!, continue
          /\ ~Recognized(packet_type(h))
          /\ pc' = "loop_head"
          /\ UNCHANGED <<loopVars, calls, faults>>
       \/ \* data.read_exact(&mut packet_data) fails
          /\ Recognized(packet_type(h))
          /\ Len(payload) - pos < len
          /\ pos' = Len(payload)
          /\ ReturnError("payload_read")
          /\ UNCHANGED <<packet_header, first_pts, progress, audio_bsf, muxed,
                         header_tail, early_cancel>>
       \/ \* a video packet: muxer.push(packet), Ok or Err
          /\ packet_type(h) = PacketTypeVideo
          /\ Len(payload) - pos >= len
          /\ pos' = pos + len
          /\ first_pts' = first
          /\ \/ /\ muxed' = Append(muxed, packet)
                /\ ReportProgress
                /\ UNCHANGED faults
             \/ /\ ReturnError("muxer_push")
                /\ UNCHANGED <<muxed, progress>>
          /\ UNCHANGED <<packet_header, audio_bsf, header_tail, early_cancel>>
       \/ \* an audio packet: audio_bsf.push(packet) fails
          /\ packet_type(h) = PacketTypeAudio
          /\ Len(payload) - pos >= len
          /\ pos' = pos + len
          /\ first_pts' = first
          /\ ReturnError("bsf_push")
          /\ UNCHANGED <<packet_header, progress, audio_bsf, muxed, header_tail,
                         early_cancel>>
       \/ \* an audio packet: pushed into the filter, then
          \* `while let Ok(Some(p)) = audio_bsf.take()` yields k packets and
          \* ends on Ok(None) or, unreported, on Err; each is pushed to the
          \* muxer, and the failed_at-th push fails (0: none)
          /\ packet_type(h) = PacketTypeAudio
          /\ Len(payload) - pos >= len
          /\ pos' = pos + len
          /\ first_pts' = first
          /\ LET held == Append(audio_bsf, packet)
             IN  \E k \in 0..Len(held), take_err \in BOOLEAN, failed_at \in 0..Len(held) :
                   /\ failed_at <= k
                   /\ IF failed_at = 0
                      THEN /\ muxed' = muxed \o FilterOutput(SubSeq(held, 1, k))
                           /\ audio_bsf' = SubSeq(held, k + 1, Len(held))
                           /\ faults' = faults \cup (IF take_err THEN {"bsf_take"} ELSE {})
                           /\ ReportProgress
                      ELSE /\ ~take_err
                           /\ muxed' = muxed \o FilterOutput(SubSeq(held, 1, failed_at - 1))
                           /\ audio_bsf' = SubSeq(held, failed_at + 1, Len(held))
                           /\ ReturnError("muxer_push")
                           /\ UNCHANGED progress
          /\ UNCHANGED <<packet_header, header_tail, early_cancel>>
    /\ UNCHANGED <<inputVars, orchVars, job, cancel, ioVars, ctlVars>>

\* One flush call: on which object, whether it returned Ok, and how many
\* packets the muxer had been given when it was made.
Flush(op, ok, pushed) == [op |-> op, ok |-> ok, pushed |-> pushed]

\* After the loop in decrypt_video.rs: audio_bsf.flush(), the drain of the
\* filter into the muxer, muxer.flush(), on_complete().
EndOfStream ==
    /\ pc = "end_of_stream"
    /\ job.kind = "video"
    /\ \/ \* audio_bsf.flush() fails
          /\ ReturnError("bsf_flush")
          /\ flushed' = Append(flushed, Flush("audio_bsf", FALSE, Len(muxed)))
          /\ UNCHANGED <<audio_bsf, muxed, out_file>>
       \/ \* the drain yields k packets: all that are held, or fewer when
          \* take() fails, which ends the `while let` unreported; the
          \* failed_at-th muxer.push fails (0: none)
          \E k \in 0..Len(audio_bsf), failed_at \in 0..Len(audio_bsf) :
            /\ failed_at <= k
            /\ failed_at > 0
            /\ muxed' = muxed \o FilterOutput(SubSeq(audio_bsf, 1, failed_at - 1))
            /\ audio_bsf' = SubSeq(audio_bsf, failed_at + 1, Len(audio_bsf))
            /\ flushed' = Append(flushed, Flush("audio_bsf", TRUE, Len(muxed)))
            /\ ReturnError("muxer_push")
            /\ UNCHANGED out_file
       \/ \* every push succeeds, then muxer.flush() fails or succeeds
          \E k \in 0..Len(audio_bsf), flush_ok \in BOOLEAN :
            LET take_faults == IF k < Len(audio_bsf) THEN {"bsf_take"} ELSE {}
            IN  /\ muxed' = muxed \o FilterOutput(SubSeq(audio_bsf, 1, k))
                /\ audio_bsf' = SubSeq(audio_bsf, k + 1, Len(audio_bsf))
                /\ flushed' = flushed \o <<Flush("audio_bsf", TRUE, Len(muxed)),
                                           Flush("muxer", flush_ok, Len(muxed) + k)>>
                /\ IF flush_ok
                   THEN /\ calls' = Append(calls, Call("on_complete", 0, ""))
                        /\ faults' = faults \cup take_faults
                        /\ out_file' = "complete"
                        /\ pc' = "returned"
                   ELSE /\ calls' = Append(calls, OnError("muxer_flush"))
                        /\ faults' = faults \cup take_faults \cup {"muxer_flush"}
                        /\ pc' = "returned"
                        /\ UNCHANGED out_file
    /\ UNCHANGED <<inputVars, orchVars, job, cancel, pos, packet_header,
                   first_pts, progress, header_tail, early_cancel, out_bytes,
                   out_path, codecs, ctlVars>>

\* The loop body of mux_video in decrypt.rs: every recognized packet goes
\* straight to the muxer.
LegacyLoopBody ==
    /\ pc = "loop_body"
    /\ job.kind = "video_legacy"
    /\ LET h == packet_header
           len == packet_length(h)
           first == FirstPtsAfter(first_pts, packet_pts(h))
           packet == MakePacket(h, first, pos - PacketHeaderLen)
       IN
       \/ \* unknown packet type: warn!, continue
          /\ ~Recognized(packet_type(h))
          /\ pc' = "loop_head"
          /\ UNCHANGED <<loopVars, calls, faults>>
       \/ \* data.read_exact(&mut packet_data) fails
          /\ Recognized(packet_type(h))
          /\ Len(payload) - pos < len
          /\ pos' = Len(payload)
          /\ ReturnError("payload_read")
          /\ UNCHANGED <<packet_header, first_pts, progress, audio_bsf, muxed,
                         header_tail, early_cancel>>
       \/ \* muxer.push(packet), Ok or Err
          /\ Recognized(packet_type(h))
          /\ Len(payload) - pos >= len
          /\ pos' = pos + len
          /\ first_pts' = first
          /\ \/ /\ muxed' = Append(muxed, packet)
                /\ ReportProgress
                /\ UNCHANGED faults
             \/ /\ ReturnError("muxer_push")
                /\ UNCHANGED <<muxed, progress>>
          /\ UNCHANGED <<packet_header, audio_bsf, header_tail, early_cancel>>
    /\ UNCHANGED <<inputVars, orchVars, job, cancel, ioVars, ctlVars>>

\* After the loop in decrypt.rs: muxer.flush(), on_complete().
LegacyEndOfStream ==
    /\ pc = "end_of_stream"
    /\ job.kind = "video_legacy"
    /\ \/ /\ ReturnError("muxer_flush")
          /\ flushed' = Append(flushed, Flush("muxer", FALSE, Len(muxed)))
          /\ UNCHANGED out_file
       \/ /\ calls' = Append(calls, Call("on_complete", 0, ""))
          /\ flushed' = Append(flushed, Flush("muxer", TRUE, Len(muxed)))
          /\ out_file' = "complete"
          /\ pc' = "returned"
          /\ UNCHANGED faults
    /\ UNCHANGED <<inputVars, orchVars, job, cancel, loopVars, out_bytes, out_path,
                   codecs, ctlVars>>

\* ------------------------------------------------------------- image job

\* ImageDecryptionJob::run, up to the output file's creation.
ImageRun ==
    /\ pc = "ready"
    /\ job.kind = "image"
    /\ calls' = calls \o RunPrologue(job)
    /\ pc' = "image_copy"
    /\ runs' = runs + 1
    /\ UNCHANGED <<inputVars, orchVars, job, cancel, loopVars, ioVars,
                   cancel_mark, faults>>

\* format!("{}.{}", metadata.timestamp, metadata.format)
image_file_name(timestamp, format) == timestamp \o <<".">> \o format

\* std::io::copy: the first n bytes the reader still holds, as written.
copy(reader_rest, n) == SubSeq(reader_rest, 1, n)

\* The rest of ImageDecryptionJob::run: out_path.push(filename),
\* File::create, io::copy of the whole reader into the file, on_complete;
\* copy may fail after any number of bytes. File::create cannot succeed on
\* a path that runs through a file an earlier run created.
ImageCopy ==
    /\ pc = "image_copy"
    /\ out_path' = PathPush(out_path, image_file_name(job.timestamp, job.format))
    /\ LET reader_rest == SubSeq(payload, pos + 1, Len(payload))
       IN
       \/ /\ ReturnError("file_create")
          /\ UNCHANGED <<pos, out_file, out_bytes>>
       \/ \E n \in 0..Len(reader_rest) :
            /\ out_file = "absent"
            /\ out_file' = "created"
            /\ out_bytes' = copy(reader_rest, n)
            /\ pos' = pos + n
            /\ ReturnError("copy")
       \/ /\ out_file = "absent"
          /\ out_file' = "complete"
          /\ out_bytes' = copy(reader_rest, Len(reader_rest))
          /\ pos' = Len(payload)
          /\ calls' = Append(calls, Call("on_complete", 0, ""))
          /\ pc' = "returned"
          /\ UNCHANGED faults
    /\ UNCHANGED <<inputVars, orchVars, job, cancel, packet_header, first_pts,
                   progress, audio_bsf, muxed, header_tail, early_cancel, codecs,
                   flushed, ctlVars>>

\* ----------------------------------------------------------- specification

Next ==
    \/ Decrypt
    \/ BuildVideo
    \/ BuildImage
    \/ VideoRun
    \/ LegacyVideoRun
    \/ ImageRun
    \/ SetCancel
    \/ MuxSetup
    \/ LegacyMuxSetup
    \/ ReadHeader
    \/ CheckCancel
    \/ LoopBody
    \/ EndOfStream
    \/ LegacyLoopBody
    \/ LegacyEndOfStream
    \/ ImageCopy

Spec == Init /\ [][Next]_vars

\* run takes `&mut self`, so the caller still holds the job when run has
\* returned and can call it again: the same reader, out_path and metadata,
\* and fresh locals (header buffer, first_pts, progress, filter).
RunAgain ==
    /\ pc = "returned"
    /\ runs < MaxRuns
    /\ runs' = runs + 1
    /\ calls' = calls \o RunPrologue(job)
    /\ pc' = CASE job.kind = "video" -> "mux_setup"
              [] job.kind = "video_legacy" -> "legacy_mux_setup"
              [] job.kind = "image" -> "image_copy"
    /\ packet_header' = <<>>
    /\ first_pts' = <<>>
    /\ progress' = 0
    /\ audio_bsf' = <<>>
    /\ UNCHANGED <<inputVars, orchVars, job, cancel, pos, muxed, header_tail,
                   early_cancel, ioVars, cancel_mark, faults>>

NextRerun == Next \/ RunAgain

\* The job in the hands of a caller that runs it up to MaxRuns times.
SpecRerun == Init /\ [][NextRerun]_vars

\* ------------------------------------------------- vocabulary of the claims

CallsOf(cb) == SelectSeq(calls, LAMBDA c : c.cb = cb)
Count(cb) == Len(CallsOf(cb))

VideoKinds == {"video", "video_legacy"}

\* A header read failed with 1 to 12 bytes left: the payload ends inside a
\* packet header.
TruncatedInHeader == header_tail \in 1..(PacketHeaderLen - 1)

\* decrypt() got as far as reading the secondary header.
SecondaryHeaderRead == input.kind = "file" /\ plain_read >= EncryptedHeaderLen

RecognizedIndices(ps) == {i \in DOMAIN ps : Recognized(ps[i].type)}

\* The first packet of a recognized type (0 when there is none).
FirstRecognized(ps) ==
    IF RecognizedIndices(ps) = {} THEN 0
    ELSE CHOOSE i \in RecognizedIndices(ps) : \A j \in RecognizedIndices(ps) : i <= j

\* The absolute PTS values of the input do not decrease within a type.
InputPtsNonDecreasing(ps) ==
    \A i, j \in DOMAIN ps :
        (i < j /\ ps[i].type = ps[j].type) => ps[i].pts <= ps[j].pts

\* The timestamps pushed to the muxer do not decrease within a stream.
MuxedNonDecreasing ==
    \A i, j \in DOMAIN muxed :
        (i < j /\ muxed[i].stream = muxed[j].stream) => muxed[i].pts <= muxed[j].pts

RECURSIVE ExpectedProgress(_, _)
\* Header plus payload bytes of the first k packets.
ExpectedProgress(ps, k) ==
    IF k = 0 THEN 0
    ELSE ExpectedProgress(ps, k - 1) + PacketHeaderLen + Len(ps[k].data)

\* The failures of a run that the code answers with on_error.
ReportedFailures ==
    {"channel_layout", "filter_create", "filter_params", "output_format",
     "file_create", "add_video_stream", "add_audio_stream", "muxer_build",
     "payload_read", "muxer_push", "bsf_push", "bsf_flush", "muxer_flush", "copy"}

\* ------------------------------------------------------------------ claims

\* C1: in a run of a Video or Image job, a job-runtime error (among them a
\* read truncation) is reported by exactly one on_error, which is the last
\* call of the run; on_complete is called at most once and only when on_error
\* was never called.
C1_RuntimeErrorReportedOnce ==
    job.kind \in {"video", "image"} =>
        /\ Count("on_complete") <= 1
        /\ Count("on_error") <= 1
        /\ Count("on_complete") = 1 => Count("on_error") = 0
        /\ \A i \in DOMAIN calls : calls[i].cb = "on_error" => i = Len(calls)
        /\ (pc = "returned" /\ (TruncatedInHeader \/ faults \cap ReportedFailures # {}))
              => Count("on_error") = 1

\* C2: a Video job whose payload ends inside a 13-byte packet header calls
\* on_error exactly once and never on_complete.
C2_TruncatedHeaderIsError ==
    (job.kind \in VideoKinds /\ pc = "returned" /\ TruncatedInHeader) =>
        /\ Count("on_error") = 1
        /\ Count("on_complete") = 0

\* C3: if the cancellation flag is set before the first packet header read,
\* the run makes no call of on_progress, on_complete or on_error, whatever
\* the payload's length.
C3_CancelBeforeFirstRead ==
    (job.kind \in VideoKinds /\ early_cancel) =>
        /\ Count("on_progress") = 0
        /\ Count("on_complete") = 0
        /\ Count("on_error") = 0

\* C4: the first packet of the payload handed to the output has timestamp 0,
\* every packet pushed to the muxer is a packet of the payload stamped with
\* its absolute PTS minus the first packet's, and when the payload's PTS
\* values do not decrease within a type, the timestamps pushed do not
\* decrease within a stream.
C4_ZeroBasedTimeline ==
    job.kind = "video" =>
        LET first == FirstRecognized(pkts)
        IN  /\ \A m \in DOMAIN muxed :
                  \E i \in RecognizedIndices(pkts) :
                      /\ muxed[m].at = PacketOffset(pkts, i)
                      /\ muxed[m].pts = pkts[i].pts - pkts[first].pts
                      /\ i = first => muxed[m].pts = 0
            /\ InputPtsNonDecreasing(pkts) => MuxedNonDecreasing

\* C5: on a Video run that ends with on_complete over a payload of n complete
\* packets of type 1 or 2, the k-th on_progress value is the sum of
\* (13 + payload length) over the first k packets, there are n of them, and
\* so the last one is the payload's total byte count.
C5_ProgressTotals ==
    (/\ job.kind \in VideoKinds
     /\ cut = 0
     /\ \A i \in DOMAIN pkts : Recognized(pkts[i].type)
     /\ pc = "returned"
     /\ Count("on_complete") = 1)
    => LET reported == CallsOf("on_progress")
       IN  /\ Len(reported) = Len(pkts)
           /\ \A k \in DOMAIN reported : reported[k].n = ExpectedProgress(pkts, k)
           /\ pkts # <<>> => reported[Len(reported)].n = Len(payload)

\* C5 witness: a completed run of the filter-equipped job over two packets,
\* one video with payload bytes and one audio.
C5_Witness ==
    /\ job.kind = "video"
    /\ cut = 0
    /\ Len(pkts) = 2
    /\ pkts[1].type = PacketTypeVideo /\ Len(pkts[1].data) = 2
    /\ pkts[2].type = PacketTypeAudio
    /\ pc = "returned"
    /\ Count("on_complete") = 1
    /\ Count("on_progress") = 2

\* C6: decrypt() yields a Video job for file type 1, an Image job for file
\* type 2, and no job for any other type byte.
C6_DispatchOnFileType ==
    (SecondaryHeaderRead /\ result = "job") =>
        \/ input.file_type = 1 /\ job.kind \in VideoKinds
        \/ input.file_type = 2 /\ job.kind = "image"

\* C7: with offset_to_data < 5, decrypt() fails with a malformed-stream error
\* before reading any byte after the 5-byte secondary header, and
\* metadata_len is only ever offset_to_data - 5, never a wrapped value.
C7_MalformedOffsetRejected ==
    SecondaryHeaderRead =>
        /\ metadata_len \in {NoValue, input.offset_to_data - EncryptedHeaderLen}
        /\ input.offset_to_data < EncryptedHeaderLen =>
              /\ result = "err_malformed"
              /\ plain_read = EncryptedHeaderLen

\* C8: when the outer header declares a version other than 1, decrypt() fails
\* with the version error and keyring.decrypt is never invoked.
C8_VersionBeforeDecrypt ==
    (input.kind = "file" /\ input.header_ok /\ input.version # 1) =>
        /\ result = "err_version"
        /\ decrypt_calls = 0
        /\ plain_read = 0
        /\ job = NoJob

\* C8 witness: decrypt() has returned on a file of version 2.
C8_Witness ==
    /\ input.kind = "file"
    /\ input.header_ok
    /\ input.version = 2
    /\ pc = "failed"

\* The worker has started processing data: it is past run()'s first
\* statements, or has touched the payload, the output file or the sink's
\* on_* callbacks.
DataProcessingBegun ==
    \/ pc \in {"loop_head", "loop_check", "loop_body", "end_of_stream", "returned",
               "panicked"}
    \/ packet_header # <<>>
    \/ header_tail # NoValue
    \/ out_file # "absent"
    \/ out_bytes # <<>>
    \/ faults # {}
    \/ Count("on_progress") + Count("on_complete") + Count("on_error") > 0

\* C9: in every run of either job variant, set_total_file_size (with the
\* job's total input size) and set_offset (with outer header length +
\* offset_to_data) are called, in this order and once each, before any data
\* processing, also on runs that end in an error or a cancellation.
C9_PrologueBeforeProcessing ==
    /\ DataProcessingBegun =>
          /\ Len(calls) >= 2
          /\ calls[1] = Call("set_total_file_size", job.total_file_size, "")
          /\ calls[2] = Call("set_offset", job.bytes_before_data, "")
          /\ Count("set_total_file_size") = 1
          /\ Count("set_offset") = 1
    /\ job.kind = "video_legacy" =>
          /\ job.total_file_size = (IF input.size_known THEN FileLen ELSE 0)
          /\ job.bytes_before_data = OuterHeaderLen + input.offset_to_data

\* C9 witness: a cancelled run that had read a packet header, with nothing
\* on the sink but the two set_ calls.
C9_Witness ==
    /\ job.kind = "video"
    /\ pc = "returned"
    /\ cancel
    /\ packet_header # <<>>
    /\ out_file = "created"
    /\ Len(calls) = 2

\* C10: every failure detected during a Video run is delivered through
\* on_error and run returns normally; none escapes as a panic.
C10_NoFailureEscapesRun ==
    job.kind \in VideoKinds =>
        /\ pc # "panicked"
        /\ (pc = "returned" /\ faults \cap ReportedFailures # {}) => Count("on_error") = 1

\* C11: a job is single-use: once run has returned, the same job is not run
\* again, so no second run reads the reader, extends the output path,
\* creates an output file or calls the sink.
C11_JobIsSingleUse == runs <= 1

\* The path "{out_dir}/{name}", as a text.
InOutDir(name) == OutDir \o <<"/">> \o name

\* C12: an Image job over the remaining bytes B with metadata timestamp t and
\* format f, run without I/O failure, writes the file {out_dir}/t.f with
\* exactly the bytes B and then calls on_complete exactly once; an I/O
\* failure on create or copy yields on_error and no on_complete.
C12_ImageCopiedVerbatim ==
    (job.kind = "image" /\ pc = "returned") =>
        IF faults \cap {"file_create", "copy"} = {}
        THEN /\ out_path = InOutDir(job.timestamp \o <<".">> \o job.format)
             /\ out_file = "complete"
             /\ out_bytes = payload
             /\ Count("on_complete") = 1
             /\ Count("on_error") = 0
        ELSE /\ Count("on_error") = 1
             /\ Count("on_complete") = 0

\* The codec field of the metadata the job was made from.
MetadataCodec == IF job.kind = "video_legacy" THEN input.codec ELSE job.codec

\* C13: the video codec is a total function of the metadata's optional codec
\* field: absent selects the baseline codec (h264), a value equal ignoring
\* case to "hevc" or "h265" selects HEVC, any other value selects the
\* baseline codec; the audio codec is always AAC.
C13_CodecSelection ==
    (job.kind \in VideoKinds /\ codecs.video # "none") =>
        /\ codecs.video =
              IF MetadataCodec \in
                   {Some(<<"h", "e", "v", "c">>), Some(<<"H", "E", "V", "C">>),
                    Some(<<"H", "e", "V", "c">>), Some(<<"h", "2", "6", "5">>),
                    Some(<<"H", "2", "6", "5">>)}
              THEN "hevc" ELSE "h264"
        /\ codecs.audio \in {"none", "aac"}

\* C13 restricted to the job of decrypt_video.rs.
C13_CodecSelectionNewJob == job.kind = "video" => C13_CodecSelection

\* C14: a packet of unrecognized type does not desynchronize the stream:
\* every header the loop reads begins where a packet of the payload begins,
\* directly after the declared payload of the packet before it, and so
\* carries that packet's type, PTS and length.
C14_UnknownTypeKeepsAlignment ==
    (job.kind \in VideoKinds /\ pc \in {"loop_check", "loop_body"}) =>
        \E i \in DOMAIN pkts :
            /\ PacketOffset(pkts, i) = pos - PacketHeaderLen
            /\ packet_type(packet_header) = pkts[i].type
            /\ packet_pts(packet_header) = pkts[i].pts
            /\ packet_length(packet_header) = Len(pkts[i].data)

\* C15: the cumulative byte count grows by 13 plus the payload length and is
\* reported through on_progress after every packet, of recognized type or
\* not: on a completed run over a complete payload there are as many
\* on_progress calls as packets, the k-th carrying the bytes of the first k.
C15_ProgressAfterEveryPacket ==
    (job.kind = "video" /\ cut = 0 /\ pc = "returned" /\ Count("on_complete") = 1) =>
        LET reported == CallsOf("on_progress")
        IN  /\ Len(reported) = Len(pkts)
            /\ \A k \in DOMAIN reported : reported[k].n = ExpectedProgress(pkts, k)

\* C16: a failure of the audio filter's take, in the per-packet drain or in
\* the drain after flush, is a hard error, and so are failures of its push
\* and flush: the job stops, on_error is called exactly once and on_complete
\* is not called.
C16_FilterFailureIsHardError ==
    (job.kind = "video" /\ faults \cap {"bsf_take", "bsf_push", "bsf_flush"} # {}) =>
        /\ pc = "returned"
        /\ Count("on_error") = 1
        /\ Count("on_complete") = 0

\* C17: in a Video job every audio packet passes through the audio bitstream
\* filter before muxing: what reaches the audio stream of the muxer was
\* yielded by the filter, never an input packet pushed directly, and what
\* reaches the video stream was pushed directly.
C17_AudioThroughFilter ==
    job.kind \in VideoKinds =>
        \A m \in DOMAIN muxed :
            muxed[m].filtered <=> muxed[m].stream = audio_stream_index

\* C17 restricted to the job of decrypt_video.rs.
C17_AudioThroughFilterNewJob == job.kind = "video" => C17_AudioThroughFilter

\* The pushes made to the muxer are in payload order within each stream.
MuxedInInputOrder ==
    \A i, j \in DOMAIN muxed :
        (i < j /\ muxed[i].stream = muxed[j].stream) => muxed[i].at < muxed[j].at

\* C18: packets are pushed to the muxer in input order per type, those the
\* filter yields in the order it emits them; none is pushed twice, and on a
\* run that ends with on_complete none is dropped: every packet of type 1
\* or 2 of a complete payload has been pushed and the filter holds nothing.
C18_InputOrderNoLoss ==
    job.kind = "video" =>
        /\ MuxedInInputOrder
        /\ (cut = 0 /\ pc = "returned" /\ Count("on_complete") = 1) =>
              /\ audio_bsf = <<>>
              /\ \A i \in RecognizedIndices(pkts) :
                    \E m \in DOMAIN muxed : muxed[m].at = PacketOffset(pkts, i)

\* C19: the audio filter and the muxer are flushed only when the packet loop
\* ended normally, at the end of the payload on a packet boundary, never on
\* a run ended by cancellation or by a read failure; the filter is flushed
\* first, then what it yields is pushed, then the muxer is flushed, and
\* on_complete is called only after a successful muxer flush.
C19_EndOfStreamOrdering ==
    job.kind = "video" =>
        /\ flushed # <<>> =>
              /\ header_tail = 0
              /\ "payload_read" \notin faults
              /\ flushed[1].op = "audio_bsf"
              /\ Len(flushed) <= 2
              /\ Len(flushed) = 2 =>
                    /\ flushed[1].ok
                    /\ flushed[2].op = "muxer"
                    /\ flushed[2].pushed = Len(muxed)
                    /\ \A m \in (flushed[1].pushed + 1)..flushed[2].pushed :
                          muxed[m].filtered
        /\ Count("on_complete") > 0 =>
              /\ Len(flushed) = 2
              /\ flushed[2].ok
              /\ calls[Len(calls)].cb = "on_complete"

\* A run that has returned after the flag was set while a complete packet
\* still lay unread beyond the worker's position.
CancelledWithMoreToRead ==
    /\ job.kind \in VideoKinds
    /\ cancel_mark.set
    /\ cancel_mark.more
    /\ pc = "returned"

\* After the flag was set the worker finished at most the packet in flight:
\* at most that packet was reported, and nothing that begins after it in the
\* payload was pushed to the muxer.
NothingLaterProcessed ==
    /\ Count("on_progress") <=
          cancel_mark.n_progress + (IF cancel_mark.in_flight THEN 1 ELSE 0)
    /\ \A m \in (cancel_mark.n_muxed + 1)..Len(muxed) :
          cancel_mark.in_flight /\ muxed[m].at <= cancel_mark.at

\* The on_error calls of a run are at most one, for a failure of the set-up
\* (when the flag was set before the loop) or of a push of the packet in
\* flight.
OnlyFailuresBeforeTheCheck ==
    /\ Count("on_error") <= 1
    /\ \A c \in DOMAIN calls :
          calls[c].cb = "on_error" =>
              \/ /\ cancel_mark.before_loop
                 /\ \E i \in DOMAIN SetupStages : calls[c].err = SetupStages[i]
              \/ /\ cancel_mark.in_flight
                 /\ calls[c].err \in {"bsf_push", "muxer_push"}

\* C20 as stated: if the flag is set while at least one further complete
\* packet remains unread, the worker finishes at most the packet in flight,
\* pushes no later packet, and run returns with no on_complete, no on_error
\* and no on_progress for a later packet.
C20_CancellationSilent ==
    CancelledWithMoreToRead =>
        /\ NothingLaterProcessed
        /\ Count("on_complete") = 0
        /\ Count("on_error") = 0

\* C20, amended: under every interleaving, if the flag is set while at least
\* one further complete packet remains unread, the worker stops at its next
\* check of the flag: it finishes at most the packet in flight, pushes no
\* later packet, and run returns with no on_complete and no on_progress for
\* a later packet; on_error is called only when the set-up or a push of the
\* packet in flight fails before that check.
C20_CancellationStopsAtNextCheck ==
    CancelledWithMoreToRead =>
        /\ NothingLaterProcessed
        /\ Count("on_complete") = 0
        /\ OnlyFailuresBeforeTheCheck

\* C20 witness: the flag was set while a packet was in flight with another
\* complete packet behind it; the worker finished and reported the packet
\* in flight, read the next header, and returned without a further call.
C20_Witness ==
    /\ CancelledWithMoreToRead
    /\ job.kind = "video"
    /\ cancel_mark.in_flight
    /\ Count("on_progress") = cancel_mark.n_progress + 1
    /\ Len(muxed) = cancel_mark.n_muxed + 1
    /\ Count("on_error") = 0
    /\ calls[Len(calls)].cb = "on_progress"

\* Characters that are unsafe in a file name: the colon and the path
\* separator.
UnsafeChars == {":", "/"}

\* The name is the timestamp with every unsafe character replaced by a safe
\* one, followed by ".mp4".
SanitizedName(name, timestamp) ==
    /\ Len(name) = Len(timestamp) + 4
    /\ SubSeq(name, Len(timestamp) + 1, Len(name)) = <<".", "m", "p", "4">>
    /\ \A i \in 1..Len(timestamp) :
          /\ name[i] \notin UnsafeChars
          /\ timestamp[i] \notin UnsafeChars => name[i] = timestamp[i]

\* mux_video has pushed the file name onto out_path.
FileNamePushed == job.kind \in VideoKinds /\ runs = 1 /\ out_path # OutDir

\* C21: the Video job's output file name is the metadata timestamp with
\* every character unsafe for file names replaced, followed by ".mp4"; it
\* holds no ':' and no path separator, so the output path is a direct child
\* of the output directory.
C21_FileNameSanitized ==
    FileNamePushed =>
        \E n \in 1..Len(out_path) :
            LET name == SubSeq(out_path, n + 1, Len(out_path))
            IN  /\ out_path = InOutDir(name)
                /\ SanitizedName(name, job.timestamp)

\* C21 restricted to the job of decrypt_video.rs and to timestamps without
\* a path separator.
C21_ColonsReplaced ==
    (job.kind = "video" /\ \A i \in DOMAIN job.timestamp : job.timestamp[i] # "/")
        => C21_FileNameSanitized

====
